---- MODULE Spec2Model ----
(***************************************************************************)
(* Model of commit-history-collector.py: the line parser of                *)
(* collect_commits (two regular expressions and a loop with carried        *)
(* state) and the per-repository pipeline of get_commit_history_as_csv     *)
(* (skip guard, clone, extraction, export, cleanup) run by the driver.     *)
(*                                                                         *)
(* A line of text is a sequence of one-character strings.                  *)
(***************************************************************************)
EXTENDS Naturals, Sequences, FiniteSets

VARIABLES
  \* ---- collect_commits ----
  log_output,        \* the lines of the extractor's output
  pos,               \* number of lines the for-loop has consumed
  parser_pc,         \* "idle" | "loop" | "returned"
  current_hash,
  current_author,
  current_date,
  current_message,
  file_changes,      \* the list of records
  printed,           \* what collect_commits wrote to the console
  \* ---- driver and get_commit_history_as_csv ----
  run,               \* which execution of the script this is
  calls,             \* the (owner, name) arguments of the driver's calls
  idx,               \* the call the driver is at
  pc,                \* "driver" | "collect" | "export" | "cleanup" | "done" | "crashed"
  error,             \* the exception that ended the run, or "none"
  temp_repo,         \* the directory temp_repo: NoDir, EmptyDir or the mirrored pair
  data,              \* the files under ./data: a set of [path, writer, rows]
  ops,               \* history: the side-effecting calls of this run
  leak               \* history: the run that left temp_repo behind, 0 when none

parserVars == <<log_output, pos, parser_pc, current_hash, current_author,
                current_date, current_message, file_changes, printed>>
pipelineVars == <<run, calls, idx, pc, error, temp_repo, data, ops, leak>>
vars == <<log_output, pos, parser_pc, current_hash, current_author,
          current_date, current_message, file_changes, printed,
          run, calls, idx, pc, error, temp_repo, data, ops, leak>>

----------------------------------------------------------------------------
(* Bounds *)

MaxLines == 4
MaxCalls == 2
MaxRuns == 2

----------------------------------------------------------------------------
(* Text *)

\* {40} of commit_pattern
HashLen == 40

\* Python's None; no line of text equals it
None == <<"None">>

UnknownAuthor == <<"U","n","k","n","o","w","n"," ","A","u","t","h","o","r">>

Digits == {"0","1","2","3","4","5","6","7","8","9"}

\* [0-9a-fA-F]
IsHex(c) == c \in Digits \cup {"a","b","c","d","e","f","A","B","C","D","E","F"}

\* \d
IsDigit(c) == c \in Digits

\* \s, and the characters str.strip() removes
IsSpace(c) == c \in {" ", "\t", "\r", "\f"}

Min(S) == CHOOSE x \in S : \A y \in S : x <= y

\* " \| " at position i
IsSepAt(line, i) ==
  /\ i + 2 <= Len(line)
  /\ line[i] = " "
  /\ line[i + 1] = "|"
  /\ line[i + 2] = " "

\* Where the separator after the author may start so that a non-empty date
\* and a third separator still follow.
AuthorEnds(line) ==
  LET seps == { i \in (HashLen + 4)..Len(line) : IsSepAt(line, i) }
  IN  { i \in seps : \E j \in seps : j >= i + 4 }

\* commit_pattern.match(line) is not None
commit_match(line) ==
  /\ Len(line) >= HashLen + 3
  /\ \A k \in 1..HashLen : IsHex(line[k])
  /\ IsSepAt(line, HashLen + 1)
  /\ AuthorEnds(line) # {}

\* commit_match.groups(): (.*?) and (.+?) take the shortest text that lets
\* the rest of the pattern match, (.*) the rest of the line.
commit_groups(line) ==
  LET i == Min(AuthorEnds(line))
      j == Min({ k \in (i + 4)..Len(line) : IsSepAt(line, k) })
  IN  [ hash    |-> SubSeq(line, 1, HashLen),
        author  |-> SubSeq(line, HashLen + 4, i - 1),
        date    |-> SubSeq(line, i + 3, j - 1),
        message |-> SubSeq(line, j + 3, Len(line)) ]

\* (\d+|-) matches line[a..b]
IsCount(line, a, b) ==
  \/ a <= b /\ \A k \in a..b : IsDigit(line[k])
  \/ a = b /\ line[a] = "-"

\* \s+ matches line[a..b]
IsSpaces(line, a, b) == a <= b /\ \A k \in a..b : IsSpace(line[k])

\* where a (\d+|-) that starts at position a may end
CountEnds(line, a) ==
  IF a <= Len(line) /\ (IsDigit(line[a]) \/ line[a] = "-")
  THEN { b \in a..Len(line) : IsCount(line, a, b) }
  ELSE {}

\* where a \s+ that starts at position a may end
SpaceEnds(line, a) ==
  IF a <= Len(line) /\ IsSpace(line[a])
  THEN { b \in a..Len(line) : IsSpaces(line, a, b) }
  ELSE {}

\* Every way numstat_pattern matches the whole line: <<a, b, c, d>> are the
\* last positions of the first count, the first blank run, the second count
\* and the second blank run; (.+) takes the rest, at least one character.
NumstatSplits(line) ==
  UNION { UNION { UNION { { <<a, b, c, d>> :
                              d \in { e \in SpaceEnds(line, c + 1) : e < Len(line) } } :
                          c \in CountEnds(line, b + 1) } :
                  b \in SpaceEnds(line, a + 1) } :
          a \in CountEnds(line, 1) }

\* numstat_pattern.match(line) is not None
numstat_match(line) == NumstatSplits(line) # {}

\* s before t in the order the greedy quantifiers try the splits
Longer(s, t) ==
  \E k \in 1..4 : s[k] > t[k] /\ \A m \in 1..(k - 1) : s[m] = t[m]

\* numstat_match.groups(): every quantifier is greedy
numstat_groups(line) ==
  LET S == NumstatSplits(line)
      s == CHOOSE x \in S : \A y \in S : x = y \/ Longer(x, y)
  IN  [ additions |-> SubSeq(line, 1, s[1]),
        deletions |-> SubSeq(line, s[2] + 1, s[3]),
        file_name |-> SubSeq(line, s[4] + 1, Len(line)) ]

\* bool(line.strip())
strip_nonempty(line) == \E k \in 1..Len(line) : ~IsSpace(line[k])

----------------------------------------------------------------------------
(* The body of the loop of collect_commits, on the record                  *)
(* [current_hash, current_author, current_date, current_message,           *)
(*  file_changes, printed]                                                 *)

AuthorOrDefault_NoSentinel(author) == author

\* author if author else "Unknown Author"
AuthorOrDefault(author) == IF author # <<>> THEN author ELSE UnknownAuthor

OnCommit_KeepsDate(st, line) ==
  LET g == commit_groups(line) IN
  [ st EXCEPT !.current_hash = g.hash,
              !.current_message = g.message,
              !.current_author = AuthorOrDefault(g.author) ]

\* the branch "if commit_match"
OnCommit(st, line) ==
  LET g == commit_groups(line) IN
  [ st EXCEPT !.current_hash = g.hash,
              !.current_date = g.date,
              !.current_message = g.message,
              !.current_author = AuthorOrDefault(g.author) ]

NumstatBranch_NoHashGuard(st, line) == numstat_match(line)

\* the condition "numstat_match and current_hash is not None"
NumstatBranch(st, line) == numstat_match(line) /\ st.current_hash # None

\* the branch that appends a record
OnNumstat(st, line) ==
  LET g == numstat_groups(line) IN
  [ st EXCEPT !.file_changes =
      Append(@, [ hash      |-> st.current_hash,
                  author    |-> st.current_author,
                  date      |-> st.current_date,
                  message   |-> st.current_message,
                  file      |-> g.file_name,
                  additions |-> g.additions,
                  deletions |-> g.deletions ]) ]

OnUnexpected_Resets(st, line) ==
  [ st EXCEPT !.printed = Append(@, [kind |-> "unexpected", line |-> line]),
              !.current_hash = None ]

\* the branch "elif line.strip()": print and go on
OnUnexpected(st, line) ==
  [ st EXCEPT !.printed = Append(@, [kind |-> "unexpected", line |-> line]) ]

\* one iteration of "for line in log_output"
ParseLine(st, line) ==
  IF commit_match(line) THEN OnCommit(st, line)
  ELSE IF NumstatBranch(st, line) THEN OnNumstat(st, line)
  ELSE IF strip_nonempty(line) THEN OnUnexpected(st, line)
  ELSE st

\* the state before the loop
ParserStart ==
  [ current_hash |-> None, current_author |-> None, current_date |-> None,
    current_message |-> None, file_changes |-> <<>>, printed |-> <<>> ]

\* print(len(file_changes), "file changes were collected...")
PrintCount(st) ==
  [ st EXCEPT !.printed = Append(@, [kind |-> "count", n |-> Len(st.file_changes)]) ]

RECURSIVE ParseFrom(_, _, _)
\* the loop from line k on
ParseFrom(st, lines, k) ==
  IF k > Len(lines) THEN st ELSE ParseFrom(ParseLine(st, lines[k]), lines, k + 1)

\* collect_commits on an extractor output: the loop, then the print
CollectFrom(lines) == PrintCount(ParseFrom(ParserStart, lines, 1))

ParserState ==
  [ current_hash |-> current_hash, current_author |-> current_author,
    current_date |-> current_date, current_message |-> current_message,
    file_changes |-> file_changes, printed |-> printed ]

SetParserState(st) ==
  /\ current_hash' = st.current_hash
  /\ current_author' = st.current_author
  /\ current_date' = st.current_date
  /\ current_message' = st.current_message
  /\ file_changes' = st.file_changes
  /\ printed' = st.printed

----------------------------------------------------------------------------
(* Sample lines *)

Rep(c, n) == [i \in 1..n |-> c]
Sep == <<" ", "|", " ">>
HashA == Rep("a", HashLen)
HashB == Rep("1", HashLen)
DateA == <<"2","0","2","4","-","0","1","-","0","1"," ","0","0",":","0","0",":","0","0">>
DateB == <<"2","0","2","3","-","1","2","-","3","1"," ","2","3",":","5","9",":","5","9">>

\* a header with every field
HeaderA == HashA \o Sep \o <<"B","o","b">> \o Sep \o DateA \o Sep \o <<"f","i","x">>
\* a header with a decimal hash, no author and no message
HeaderB == HashB \o Sep \o Sep \o DateB \o Sep
\* a header without a date
NoDateHeader == HashA \o Sep \o <<"B","o","b">> \o Sep \o Sep \o <<"f","i","x">>
NumstatText == <<"5", "\t", "2", "\t", "f", "o", "o">>
NumstatBinary == <<"-", "\t", "-", "\t", "b", ".", "p", "n", "g">>
BlankLine == <<>>
SpacesLine == <<" ", "\t">>
FatalLine == <<"f","a","t","a","l",":"," ","x">>

Lines == { HeaderA, HeaderB, NoDateHeader, NumstatText, NumstatBinary,
           BlankLine, SpacesLine, FatalLine }

RECURSIVE SeqsUpTo(_, _)
\* the sequences over S of length at most n
SeqsUpTo(S, n) ==
  IF n = 0 THEN { <<>> }
  ELSE LET R == SeqsUpTo(S, n - 1)
       IN  R \cup { Append(s, x) : s \in { r \in R : Len(r) = n - 1 }, x \in S }

----------------------------------------------------------------------------
(* The parser on its own: collect_commits' loop over any extractor output  *)

PipelineIdle ==
  /\ run = 1
  /\ calls = <<>>
  /\ idx = 1
  /\ pc = "collect"
  /\ error = "none"
  /\ temp_repo = <<"NoDir">>
  /\ data = {}
  /\ ops = <<>>
  /\ leak = 0

ParserInit ==
  /\ log_output \in SeqsUpTo(Lines, MaxLines)
  /\ pos = 0
  /\ parser_pc = "loop"
  /\ current_hash = None
  /\ current_author = None
  /\ current_date = None
  /\ current_message = None
  /\ file_changes = <<>>
  /\ printed = <<>>
  /\ PipelineIdle

\* one iteration of the for-loop
LoopIteration ==
  /\ parser_pc = "loop"
  /\ pos < Len(log_output)
  /\ SetParserState(ParseLine(ParserState, log_output[pos + 1]))
  /\ pos' = pos + 1
  /\ UNCHANGED <<log_output, parser_pc>>
  /\ UNCHANGED pipelineVars

\* the loop is over: print the count and return file_changes
Return ==
  /\ parser_pc = "loop"
  /\ pos = Len(log_output)
  /\ SetParserState(PrintCount(ParserState))
  /\ parser_pc' = "returned"
  /\ UNCHANGED <<log_output, pos>>
  /\ UNCHANGED pipelineVars

ParserNext == LoopIteration \/ Return

ParserSpec == ParserInit /\ [][ParserNext]_vars

----------------------------------------------------------------------------
(* The driver and get_commit_history_as_csv                                *)

Repo(o, n) == [owner |-> o, repo_name |-> n]

\* the list of repositories that were already processed
repos ==
  << Repo("tensorflow", "tensorflow"),
     Repo("keras-team", "keras"),
     Repo("pytorch", "pytorch"),
     Repo("microsoft", "vscode"),
     Repo("microsoft", "PowerToys"),
     Repo("facebook", "react"),
     Repo("facebook", "react-native"),
     Repo("facebook", "create-react-app"),
     Repo("home-assistant", "core"),
     Repo("flutter", "flutter"),
     Repo("microsoftdocs", "azure-docs"),
     Repo("automatic1111", "stable-diffusion-webui"),
     Repo("vercel", "next.js"),
     Repo("langchain-ai", "langchain") >>

\* the calls at the end of the script, in order
DriverCalls ==
  << Repo("tensorflow", "tensorflow"),
     Repo("keras-team", "keras"),
     Repo("pytorch", "pytorch"),
     Repo("microsoft", "vscode"),
     Repo("microsoft", "PowerToys"),
     Repo("facebook", "react"),
     Repo("facebook", "react-native"),
     Repo("facebook", "create-react-app"),
     Repo("home-assistant", "core"),
     Repo("flutter", "flutter"),
     Repo("microsoftdocs", "azure-docs"),
     Repo("automatic1111", "stable-diffusion-webui"),
     Repo("vercel", "next.js"),
     Repo("langchain-ai", "langchain") >>

repo_already_existing_FirstOnly(owner, repo_name, repo_list) ==
  /\ Len(repo_list) > 0
  /\ repo_list[1].owner = owner
  /\ repo_list[1].repo_name = repo_name

\* True when some entry has this owner and this name
repo_already_existing(owner, repo_name, repo_list) ==
  \E k \in 1..Len(repo_list) :
    repo_list[k].owner = owner /\ repo_list[k].repo_name = repo_name

ExportPath_WithOwner(repo_owner, repo_name) ==
  <<"./data/", repo_owner, "_", repo_name, "_commit_history.csv">>

\* f'./data/{repo_name}_commit_history.csv'
ExportPath(repo_owner, repo_name) ==
  <<"./data/", repo_name, "_commit_history.csv">>

\* the states of the directory temp_repo
NoDir == <<"NoDir">>
EmptyDir == <<"EmptyDir">>
Mirror(c) == <<"Mirror", c.owner, c.repo_name>>

DirectoryExists_Never(dir) == FALSE

\* os.path.exists(temp_dir)
DirectoryExists(dir) == dir # NoDir

Raise_Swallowed(kind) ==
  /\ error' = kind
  /\ pc' = "driver"
  /\ idx' = idx + 1
  /\ leak' = IF kind \in {"CloneFailure", "WriteFailure"} THEN run ELSE leak

\* An exception nothing catches: it leaves get_commit_history_as_csv and the
\* script; the driver's later calls are not made.
Raise(kind) ==
  /\ error' = kind
  /\ pc' = "crashed"
  /\ idx' = idx
  /\ leak' = IF kind \in {"CloneFailure", "WriteFailure"} THEN run ELSE leak

Op(name, ok) == [call |-> idx, op |-> name, ok |-> ok]

\* the call the driver is at is still to be made
AtCall == pc = "driver" /\ idx <= Len(calls)

Skipped(c) == repo_already_existing(c.owner, c.repo_name, repos)

\* the guard returns: nothing is done for this pair
SkipProcessed ==
  /\ AtCall
  /\ Skipped(calls[idx])
  /\ idx' = idx + 1
  /\ UNCHANGED <<run, calls, pc, error, temp_repo, data, ops, leak>>
  /\ UNCHANGED parserVars

\* clone_repo finds temp_repo: FileExistsError
CloneConflict ==
  /\ AtCall
  /\ ~Skipped(calls[idx])
  /\ DirectoryExists(temp_repo)
  /\ Raise("DirectoryConflict")
  /\ UNCHANGED <<run, calls, temp_repo, data, ops>>
  /\ UNCHANGED parserVars

\* clone_repo makes the directory and git clone --mirror fills it
CloneOK ==
  /\ AtCall
  /\ ~Skipped(calls[idx])
  /\ ~DirectoryExists(temp_repo)
  /\ temp_repo' = Mirror(calls[idx])
  /\ ops' = ops \o << Op("makedirs", TRUE), Op("clone", TRUE) >>
  /\ pc' = "collect"
  /\ UNCHANGED <<run, calls, idx, error, data, leak>>
  /\ UNCHANGED parserVars

\* clone_repo makes the directory and git clone exits non-zero:
\* CalledProcessError, the directory stays
CloneFailed ==
  /\ AtCall
  /\ ~Skipped(calls[idx])
  /\ ~DirectoryExists(temp_repo)
  /\ temp_repo' = EmptyDir
  /\ ops' = ops \o << Op("makedirs", TRUE), Op("clone", FALSE) >>
  /\ Raise("CloneFailure")
  /\ UNCHANGED <<run, calls, data>>
  /\ UNCHANGED parserVars

\* what git log prints for the mirror of a repository
RemoteLog(c) ==
  IF c.owner = "fork"
  THEN << HeaderB, NumstatBinary >>
  ELSE << HeaderA, NumstatText, BlankLine, HeaderB, NumstatText >>

\* what subprocess.getoutput(...).split('\n') gives when git log exits
\* non-zero (its message) or prints nothing ([''])
FailedLogOutputs == { << FatalLine >>, << BlankLine >> }

\* collect_commits on the text out; subprocess.getoutput does not look at
\* the exit status
CollectCommits(out, ok) ==
  /\ pc = "collect"
  /\ log_output' = out
  /\ pos' = Len(out)
  /\ parser_pc' = "returned"
  /\ SetParserState(CollectFrom(out))
  /\ ops' = Append(ops, Op("log", ok))
  /\ pc' = "export"
  /\ UNCHANGED <<run, calls, idx, error, temp_repo, data, leak>>

CollectOK == CollectCommits(RemoteLog(calls[idx]), TRUE)

CollectFailed == \E out \in FailedLogOutputs : CollectCommits(out, FALSE)

\* DataFrame(...).to_csv(path): the file at path is replaced
ExportOK ==
  /\ pc = "export"
  /\ LET c == calls[idx]
         p == ExportPath(c.owner, c.repo_name)
     IN  data' = { f \in data : f.path # p }
                   \cup { [path |-> p, writer |-> c, rows |-> file_changes] }
  /\ ops' = Append(ops, Op("to_csv", TRUE))
  /\ pc' = "cleanup"
  /\ UNCHANGED <<run, calls, idx, error, temp_repo, leak>>
  /\ UNCHANGED parserVars

\* to_csv raises OSError
ExportFailed ==
  /\ pc = "export"
  /\ ops' = Append(ops, Op("to_csv", FALSE))
  /\ Raise("WriteFailure")
  /\ UNCHANGED <<run, calls, temp_repo, data>>
  /\ UNCHANGED parserVars

\* rm -rf temp_repo, then the function returns and the driver goes on
CleanupOK ==
  /\ pc = "cleanup"
  /\ temp_repo' = NoDir
  /\ ops' = Append(ops, Op("rm", TRUE))
  /\ pc' = "driver"
  /\ idx' = idx + 1
  /\ UNCHANGED <<run, calls, error, data, leak>>
  /\ UNCHANGED parserVars

\* rm exits non-zero: CalledProcessError; the directory is still there,
\* with or without its content
CleanupFailed ==
  /\ pc = "cleanup"
  /\ temp_repo' \in { temp_repo, EmptyDir }
  /\ ops' = Append(ops, Op("rm", FALSE))
  /\ Raise("CleanupFailure")
  /\ UNCHANGED <<run, calls, data>>
  /\ UNCHANGED parserVars

\* the last call has returned: the script ends
Finish ==
  /\ pc = "driver"
  /\ idx > Len(calls)
  /\ pc' = "done"
  /\ UNCHANGED <<run, calls, idx, error, temp_repo, data, ops, leak>>
  /\ UNCHANGED parserVars

\* the pairs the driver is run with
Pairs ==
  { Repo("microsoft", "vscode"), Repo("fork", "vscode"),
    Repo("acme", "vscode"), Repo("acme", "widget") }

CallLists == { DriverCalls } \cup (SeqsUpTo(Pairs, MaxCalls) \ { <<>> })

ParserIdle ==
  /\ log_output = <<>>
  /\ pos = 0
  /\ parser_pc = "idle"
  /\ current_hash = None
  /\ current_author = None
  /\ current_date = None
  /\ current_message = None
  /\ file_changes = <<>>
  /\ printed = <<>>

\* the file an earlier run wrote for a listed repository
EarlierOutput(c) ==
  [ path |-> ExportPath(c.owner, c.repo_name),
    writer |-> c,
    rows |-> CollectFrom(RemoteLog(c)).file_changes ]

PipelineInit ==
  /\ run = 1
  /\ calls \in CallLists
  /\ idx = 1
  /\ pc = "driver"
  /\ error = "none"
  /\ temp_repo \in { NoDir, EmptyDir }
  /\ data \in { {}, { EarlierOutput(Repo("microsoft", "vscode")) } }
  /\ ops = <<>>
  /\ leak = 0
  /\ ParserIdle

\* the script has ended and is started again, the file system as it is
Rerun ==
  /\ pc \in { "done", "crashed" }
  /\ run < MaxRuns
  /\ run' = run + 1
  /\ calls' \in CallLists
  /\ idx' = 1
  /\ pc' = "driver"
  /\ error' = "none"
  /\ ops' = <<>>
  /\ log_output' = <<>>
  /\ pos' = 0
  /\ parser_pc' = "idle"
  /\ SetParserState(ParserStart)
  /\ UNCHANGED <<temp_repo, data, leak>>

\* between two runs somebody removes temp_repo
ExternalRemove ==
  /\ pc \in { "done", "crashed" }
  /\ temp_repo # NoDir
  /\ temp_repo' = NoDir
  /\ leak' = 0
  /\ UNCHANGED <<run, calls, idx, pc, error, data, ops>>
  /\ UNCHANGED parserVars

PipelineNext ==
  \/ SkipProcessed
  \/ CloneConflict
  \/ CloneOK
  \/ CloneFailed
  \/ CollectOK
  \/ CollectFailed
  \/ ExportOK
  \/ ExportFailed
  \/ CleanupOK
  \/ CleanupFailed
  \/ Finish
  \/ Rerun
  \/ ExternalRemove

PipelineSpec == PipelineInit /\ [][PipelineNext]_vars

----------------------------------------------------------------------------
(* Properties of the parser, stated over the input lines                   *)

Max(S) == CHOOSE x \in S : \A y \in S : x >= y

\* the header-matching lines among the first n
HeadersUpTo(n) == { j \in 1..n : commit_match(log_output[j]) }

\* the header fields a record made from line i is to carry
Inherited(i) ==
  LET g == commit_groups(log_output[Max(HeadersUpTo(i - 1))])
  IN  [ hash |-> g.hash,
        author |-> IF g.author = <<>> THEN UnknownAuthor ELSE g.author,
        date |-> g.date,
        message |-> g.message ]

\* the numstat-matching lines among the first n that follow a header
Emitting(n) ==
  { i \in 1..n : numstat_match(log_output[i]) /\ HeadersUpTo(i - 1) # {} }

\* the line of the k-th record
LineOf(k) ==
  LET E == Emitting(pos)
  IN  CHOOSE i \in E : Cardinality({ j \in E : j <= i }) = k

\* a non-blank line that matches neither pattern
Unexpected(line) ==
  strip_nonempty(line) /\ ~commit_match(line) /\ ~numstat_match(line)

C1_Inherit ==
  /\ Len(file_changes) = Cardinality(Emitting(pos))
  /\ \A k \in 1..Len(file_changes) :
       LET r == file_changes[k]
           h == Inherited(LineOf(k))
           n == numstat_groups(log_output[LineOf(k)])
       IN  /\ r.hash = h.hash /\ r.author = h.author
           /\ r.date = h.date /\ r.message = h.message
           /\ r.file = n.file_name
           /\ r.additions = n.additions /\ r.deletions = n.deletions

C1_AppendOnly ==
  /\ Len(file_changes') >= Len(file_changes)
  /\ SubSeq(file_changes', 1, Len(file_changes)) = file_changes

\* C1: every record carries the hash, author (sentinel applied), date and
\* message of the most recent header line before its numstat line, the
\* records are in the order of their numstat lines, and a record once
\* appended is never changed or removed.
C1_RecordsInheritLastHeader == []C1_Inherit /\ [][C1_AppendOnly]_vars

\* two headers with different fields, a record after each
C1_Witness ==
  /\ parser_pc = "returned"
  /\ Len(file_changes) = 2
  /\ file_changes[1].hash = HashA /\ file_changes[1].date = DateA
  /\ file_changes[2].hash = HashB /\ file_changes[2].date = DateB
  /\ file_changes[2].message = <<>>

\* C2: the number of records is the number of numstat-matching lines after
\* the first header-matching line; headers, blank lines, unexpected lines
\* and numstat lines before any header yield none.
C2_OneRecordPerNumstatAfterHeader ==
  LET H == HeadersUpTo(pos)
      N == { i \in 1..pos : numstat_match(log_output[i]) /\ H # {} /\ i > Min(H) }
  IN  /\ Len(file_changes) = Cardinality(N)
      /\ parser_pc = "returned" =>
           printed[Len(printed)] = [kind |-> "count", n |-> Cardinality(N)]

\* a numstat line before any header, a header right after a header, a
\* numstat line after them: one record
C2_Witness ==
  /\ parser_pc = "returned"
  /\ Len(log_output) = 4
  /\ numstat_match(log_output[1])
  /\ commit_match(log_output[2])
  /\ commit_match(log_output[3])
  /\ numstat_match(log_output[4])
  /\ Len(file_changes) = 1

\* C3: a numstat-shaped line before any header yields no record and no
\* "unexpected format" diagnostic.
C3_NumstatBeforeHeaderIsSilent ==
  \A i \in 1..pos :
    (numstat_match(log_output[i]) /\ HeadersUpTo(i) = {}) =>
      /\ HeadersUpTo(pos) = {} => file_changes = <<>>
      /\ \A m \in 1..Len(printed) :
           printed[m] # [kind |-> "unexpected", line |-> log_output[i]]

\* C6: while the last header's captured author is empty the carried author
\* and every record's author are "Unknown Author"; otherwise they are the
\* captured author.
C6_AuthorSentinel ==
  /\ HeadersUpTo(pos) # {} =>
       LET a == commit_groups(log_output[Max(HeadersUpTo(pos))]).author
       IN  current_author = IF a = <<>> THEN UnknownAuthor ELSE a
  /\ Len(file_changes) <= Cardinality(Emitting(pos))
  /\ \A k \in 1..Len(file_changes) :
       LET a == commit_groups(log_output[Max(HeadersUpTo(LineOf(k) - 1))]).author
       IN  /\ a = <<>> => file_changes[k].author = UnknownAuthor
           /\ a # <<>> => file_changes[k].author = a

\* a record after the header without an author, one after the header with
C6_Witness ==
  /\ parser_pc = "returned"
  /\ \E k \in 1..Len(file_changes) :
       file_changes[k].hash = HashB /\ file_changes[k].author = UnknownAuthor
  /\ \E k \in 1..Len(file_changes) :
       file_changes[k].hash = HashA /\ file_changes[k].author = <<"B","o","b">>

C8_Step ==
  (parser_pc = "loop" /\ pos < Len(log_output) /\ Unexpected(log_output[pos + 1])) =>
    /\ current_hash' = current_hash
    /\ current_author' = current_author
    /\ current_date' = current_date
    /\ current_message' = current_message
    /\ file_changes' = file_changes
    /\ printed' = Append(printed, [kind |-> "unexpected", line |-> log_output[pos + 1]])
    /\ pos' = pos + 1
    /\ parser_pc' = "loop"

C8_Continues ==
  \A i \in 2..pos :
    ( /\ Unexpected(log_output[i - 1])
      /\ numstat_match(log_output[i])
      /\ HeadersUpTo(i - 2) # {} ) =>
        LET k == Cardinality(Emitting(i))
            g == commit_groups(log_output[Max(HeadersUpTo(i - 2))])
        IN  /\ k <= Len(file_changes)
            /\ file_changes[k].hash = g.hash
            /\ file_changes[k].date = g.date
            /\ file_changes[k].message = g.message
            /\ file_changes[k].file = numstat_groups(log_output[i]).file_name

\* C8: a non-blank line matching neither pattern leaves the four carried
\* variables unchanged, prints a diagnostic, appends no record, and the loop
\* goes on: a numstat line after it becomes a record with the previous
\* valid header's fields.
C8_UnexpectedLineIsSkipped == [][C8_Step]_vars /\ []C8_Continues

\* header, header without a date, numstat line: one record, of the header
C8_Witness ==
  /\ pos = 3
  /\ log_output[1] = HeaderA
  /\ log_output[2] = NoDateHeader
  /\ numstat_match(log_output[3])
  /\ Len(file_changes) = 1
  /\ file_changes[1].hash = HashA
  /\ printed = << [kind |-> "unexpected", line |-> NoDateHeader] >>

----------------------------------------------------------------------------
(* Properties of the pipeline                                              *)

\* the pair is an entry of the fixed list
Listed(c) == \E k \in 1..Len(repos) : repos[k] = c

FatalKinds == { "DirectoryConflict", "CloneFailure", "WriteFailure", "CleanupFailure" }

\* C4: when the log extraction exits non-zero or prints nothing, the
\* pipeline fails with ExtractionFailure: nothing is exported for that
\* repository and no later repository is processed.
C4_ExtractionFailureIsFatal ==
  \A k \in 1..Len(ops) :
    (ops[k].op = "log" /\ ~ops[k].ok) =>
      /\ k = Len(ops)
      /\ pc \notin { "cleanup", "driver", "done" }

C5_SkipStep ==
  (AtCall /\ Listed(calls[idx])) =>
    /\ temp_repo' = temp_repo
    /\ data' = data
    /\ ops' = ops
    /\ log_output' = log_output
    /\ file_changes' = file_changes
    /\ error' = error
    /\ pc' = "driver"
    /\ idx' = idx + 1

C5_DriverOnlySkips ==
  calls = DriverCalls =>
    /\ \A k \in 1..Len(calls) : Listed(calls[k])
    /\ ops = <<>>
    /\ error = "none"
    /\ pc \in { "driver", "done" }

\* C5: a call with a pair that the fixed list holds (owner and name) returns
\* without directory creation, clone, extraction, export or cleanup and
\* leaves the file system as it is; every call of the embedded driver is
\* such a call.
C5_ListedPairIsSkipped == [][C5_SkipStep]_vars /\ []C5_DriverOnlySkips

\* the embedded driver has made its fourteen calls
C5_Witness ==
  /\ calls = DriverCalls
  /\ pc = "done"
  /\ idx = Len(DriverCalls) + 1
  /\ temp_repo = EmptyDir
  /\ data # {}

C7_Halted ==
  (error \in FatalKinds /\ run' = run) =>
    /\ ops' = ops
    /\ data' = data
    /\ idx' = idx
    /\ pc' = pc
    /\ error' = error

C7_NoLaterWork ==
  error \in FatalKinds =>
    /\ pc = "crashed"
    /\ idx <= Len(calls)
    /\ ~Listed(calls[idx])
    /\ \A k \in 1..Len(ops) : ops[k].call <= idx
    /\ error # "DirectoryConflict" =>
         /\ ops # <<>>
         /\ ops[Len(ops)].call = idx
         /\ ~ops[Len(ops)].ok
    /\ error # "CleanupFailure" =>
         \A k \in 1..Len(ops) : ~(ops[k].call = idx /\ ops[k].op = "to_csv" /\ ops[k].ok)

\* C7: once a stage of a non-skipped repository fails with
\* DirectoryConflict, CloneFailure, WriteFailure or a cleanup failure, the
\* run does nothing more: no later repository is acquired, extracted,
\* exported or cleaned up, and no output file is written for the failing one.
C7_FatalFailureHaltsRun == []C7_NoLaterWork /\ [][C7_Halted]_vars

\* the export failed while another repository was still to come
C7_Witness ==
  /\ error = "WriteFailure"
  /\ pc = "crashed"
  /\ idx < Len(calls)
  /\ ~Listed(calls[idx + 1])

C9_Order ==
  \A k \in 1..Len(ops) :
    /\ ops[k].op = "clone" =>
         k > 1 /\ ops[k - 1] = [call |-> ops[k].call, op |-> "makedirs", ok |-> TRUE]
    /\ ops[k].op = "rm" =>
         k > 1 /\ ops[k - 1] = [call |-> ops[k].call, op |-> "to_csv", ok |-> TRUE]

C9_LaterRunBlocked ==
  /\ ops = <<>>
  /\ pc \in { "driver", "done", "crashed" }
  /\ error \in { "none", "DirectoryConflict" }
  /\ pc = "crashed" => error = "DirectoryConflict"
  /\ \A i \in 1..Len(calls) : i < idx => Listed(calls[i])

\* C9: the mirror directory is made before the clone is tried and removed
\* only after a successful export, so after a CloneFailure or WriteFailure
\* temp_repo is still there, and until somebody removes it every later run
\* fails with DirectoryConflict at its first non-skipped repository, without
\* cloning.
C9_FailureLeavesDirectory ==
  /\ C9_Order
  /\ error \in { "CloneFailure", "WriteFailure" } => leak \in { 0, run }
  /\ (error \in { "CloneFailure", "WriteFailure" } /\ temp_repo = NoDir) => leak = 0
  /\ leak # 0 =>
       /\ temp_repo # NoDir
       /\ leak <= run
       /\ leak = run => error \in { "CloneFailure", "WriteFailure" }
       /\ leak < run => C9_LaterRunBlocked

\* a run after the one whose export failed has ended in DirectoryConflict
C9_Witness ==
  /\ leak # 0
  /\ run > leak
  /\ error = "DirectoryConflict"
  /\ temp_repo # EmptyDir

\* a pair that shares its name, not its owner, with an entry of the list
SameNameOtherOwner(c) ==
  /\ ~Listed(c)
  /\ \E k \in 1..Len(repos) : repos[k].repo_name = c.repo_name

\* the path the output of a repository of this name goes to
PathOfName(n) == <<"./data/", n, "_commit_history.csv">>

C10_Step ==
  /\ (AtCall /\ SameNameOtherOwner(calls[idx])) => pc' \in { "collect", "crashed" }
  /\ (pc = "export" /\ pc' = "cleanup") =>
       LET c == calls[idx]
           f == [path |-> PathOfName(c.repo_name), writer |-> c, rows |-> file_changes]
       IN  /\ f \in data'
           /\ \A g \in data' : g.path = f.path => g = f
           /\ \A g \in data : g.path # f.path => g \in data'
           /\ \A g \in data' : g # f => g \in data

C10_OneFilePerName ==
  \A f, g \in data : f.writer.repo_name = g.writer.repo_name => f = g

\* C10: a pair with a listed name and another owner is not skipped, and its
\* export goes to the path of that name, replacing what was there; two
\* processed pairs of the same name never both have their output in the
\* output directory.
C10_SameNameOverwrites == [][C10_Step]_vars /\ []C10_OneFilePerName

\* the listed repository's file was there, then two other pairs of its name
\* were processed: only the last one's output is left
C10_Witness ==
  /\ pc = "done"
  /\ run = 1
  /\ calls = << Repo("fork", "vscode"), Repo("acme", "vscode") >>
  /\ Len(ops) = 10
  /\ \A k \in 1..Len(ops) : ops[k].ok
  /\ data = { [ path |-> PathOfName("vscode"), writer |-> Repo("acme", "vscode"),
                rows |-> file_changes ] }
  /\ file_changes # <<>>

====
